---------------------------- MODULE Spec2Model ----------------------------
(***************************************************************************)
(* A model of better-psl (src/src/index.ts): the rule index built from the *)
(* public suffix rules, the hostname validator, and parse / get.           *)
(*                                                                         *)
(* A JavaScript string is a sequence of characters.  An ASCII character is *)
(* the one-character string that holds it; a character outside ASCII is    *)
(* the string "U+" followed by its code point in hexadecimal.              *)
(* A value that may be null is a sequence of at most one element:          *)
(* Null is << >>, and Some(v) is << v >>.                                  *)
(***************************************************************************)
EXTENDS Integers, Sequences, FiniteSets, TLC

Null == << >>

Some(v) == << v >>

(***************************************************************************)
(* Characters.                                                             *)
(***************************************************************************)
Letters ==
  << "a", "b", "c", "d", "e", "f", "g", "h", "i", "j", "k", "l", "m",
     "n", "o", "p", "q", "r", "s", "t", "u", "v", "w", "x", "y", "z" >>

Uppers ==
  << "A", "B", "C", "D", "E", "F", "G", "H", "I", "J", "K", "L", "M",
     "N", "O", "P", "Q", "R", "S", "T", "U", "V", "W", "X", "Y", "Z" >>

Digits == << "0", "1", "2", "3", "4", "5", "6", "7", "8", "9" >>

Range(s) == { s[i] : i \in DOMAIN s }

\* The characters outside ASCII that the model's inputs use, with their
\* code points: u-umlaut (U+00FC) and e-acute (U+00E9).
CodePoint == [ c \in { "U+00FC", "U+00E9" } |->
                 IF c = "U+00FC" THEN 252 ELSE 233 ]

NonASCII(c) == c \in DOMAIN CodePoint

\* String.prototype.toLowerCase, one character at a time.
ToLowerChar(c) ==
  IF c \in Range(Uppers)
    THEN Letters[CHOOSE i \in DOMAIN Uppers : Uppers[i] = c]
    ELSE c

ToLowerCase(s) == [ i \in DOMAIN s |-> ToLowerChar(s[i]) ]

(***************************************************************************)
(* String.prototype.split and Array.prototype.join with a one-character    *)
(* separator.  Splitting the empty string gives one empty part.            *)
(***************************************************************************)
Split(s, sep) ==
  LET cuts == { i \in DOMAIN s : s[i] = sep }
      n == Cardinality(cuts)
      \* the k-th separator; the 0-th is before the string, the last after it
      cut(k) == IF k = 0 THEN 0
                ELSE IF k > n THEN Len(s) + 1
                ELSE CHOOSE i \in cuts : Cardinality({ j \in cuts : j < i }) = k - 1
  IN  [ k \in 1 .. (n + 1) |-> SubSeq(s, cut(k - 1) + 1, cut(k) - 1) ]

RECURSIVE Join(_, _)
Join(parts, sep) ==
  IF Len(parts) = 0 THEN << >>
  ELSE IF Len(parts) = 1 THEN parts[1]
  ELSE parts[1] \o << sep >> \o Join(Tail(parts), sep)

StartsWith(s, p) == Len(s) >= Len(p) /\ SubSeq(s, 1, Len(p)) = p

Contains(s, p) ==
  \E i \in 1 .. (Len(s) - Len(p) + 1) : SubSeq(s, i, i + Len(p) - 1) = p

(***************************************************************************)
(* punycode.toASCII (the punycode dependency, RFC 3492): every label that  *)
(* holds a character outside ASCII becomes "xn--" followed by its Punycode *)
(* encoding, every other label is kept.                                    *)
(***************************************************************************)
DigitToBasic(d) == IF d < 26 THEN Letters[d + 1] ELSE Digits[d - 25]

RECURSIVE AdaptLoop(_, _)
AdaptLoop(delta, k) ==
  IF delta > 455 THEN AdaptLoop(delta \div 35, k + 36)
  ELSE k + ((36 * delta) \div (delta + 38))

Adapt(delta, numPoints, firstTime) ==
  LET d == IF firstTime THEN delta \div 700 ELSE delta \div 2
  IN  AdaptLoop(d + (d \div numPoints), 0)

\* The generalized variable-length integer that stands for q.
RECURSIVE VarInt(_, _, _)
VarInt(q, k, bias) ==
  LET t == IF k <= bias THEN 1 ELSE IF k >= bias + 26 THEN 26 ELSE k - bias
  IN  IF q < t THEN << DigitToBasic(q) >>
      ELSE << DigitToBasic(t + ((q - t) % (36 - t))) >>
             \o VarInt((q - t) \div (36 - t), k + 36, bias)

\* One pass over the input for the code point m; st is
\* [delta, bias, h, output].
RECURSIVE EncodePass(_, _, _, _, _)
EncodePass(input, m, b, i, st) ==
  IF i > Len(input) THEN st
  ELSE LET c == input[i]
           cp == IF NonASCII(c) THEN CodePoint[c] ELSE 0
           d1 == IF cp < m THEN st.delta + 1 ELSE st.delta
       IN  IF cp = m
             THEN EncodePass(input, m, b, i + 1,
                    [ delta |-> 0,
                      bias |-> Adapt(d1, st.h + 1, st.h = b),
                      h |-> st.h + 1,
                      output |-> st.output \o VarInt(d1, 36, st.bias) ])
             ELSE EncodePass(input, m, b, i + 1, [ st EXCEPT !.delta = d1 ])

RECURSIVE EncodeLoop(_, _, _, _)
EncodeLoop(input, n, b, st) ==
  IF st.h >= Len(input) THEN st.output
  ELSE LET later == { CodePoint[input[i]] :
                        i \in { j \in DOMAIN input :
                                  NonASCII(input[j]) /\ CodePoint[input[j]] >= n } }
           m == CHOOSE x \in later : \A y \in later : x <= y
           st1 == [ st EXCEPT !.delta = st.delta + (m - n) * (st.h + 1) ]
           st2 == EncodePass(input, m, b, 1, st1)
       IN  EncodeLoop(input, m + 1, b, [ st2 EXCEPT !.delta = st2.delta + 1 ])

Encode(input) ==
  LET basic == SelectSeq(input, LAMBDA c : ~ NonASCII(c))
      b == Len(basic)
  IN  EncodeLoop(input, 128, b,
        [ delta |-> 0, bias |-> 72, h |-> b,
          output |-> IF b > 0 THEN basic \o << "-" >> ELSE << >> ])

ToASCIILabel(label) ==
  IF \E i \in DOMAIN label : NonASCII(label[i])
    THEN << "x", "n", "-", "-" >> \o Encode(label)
    ELSE label

ToASCII(s) ==
  LET labels == Split(s, ".")
  IN  Join([ i \in DOMAIN labels |-> ToASCIILabel(labels[i]) ], ".")

Rep(c, n) == [ i \in 1 .. n |-> c ]

\* Array.prototype.slice(0, end): a negative end counts from the end.
SliceTo(a, end) ==
  LET e == IF end < 0 THEN Len(a) + end ELSE end
  IN  SubSeq(a, 1, IF e < 0 THEN 0 ELSE IF e > Len(a) THEN Len(a) ELSE e)

\* Array.prototype.slice(begin), begin >= 0.
SliceFrom(a, begin) == SubSeq(a, begin + 1, Len(a))

Last(a) == a[Len(a)]

Front(a) == SubSeq(a, 1, Len(a) - 1)

VARIABLES
  rules,              \* the rule list of data/rules.js
  idx,                \* how many rules the reduce has taken
  rulesByPunySuffix,  \* the Map under construction: key |-> rule descriptor
  threw,              \* Null, or the rule at which the construction threw
  pc,                 \* "load", "failed", "ready", or what the caller did last
  input,              \* the argument of the last call of parse
  result,             \* what that call returned
  rule,               \* what findRule returned in that call (Null: nothing)
  lookups,            \* how many times that call ran findRule
  got,                \* what the last call of get returned
  verdict,            \* what the last direct call of validate returned
  prev                \* the call before the last one: its input, result, got

vars == << rules, idx, rulesByPunySuffix, threw, pc, input, result, rule,
           lookups, got, verdict, prev >>

(***************************************************************************)
(* rulesByPunySuffix: one step of the reduce over the rule list.           *)
(***************************************************************************)
\* rule.replace(/^(\*\.|\!)/, "")
StripPrefix(r) ==
  IF StartsWith(r, << "*", "." >>) THEN SliceFrom(r, 2)
  ELSE IF StartsWith(r, << "!" >>) THEN SliceFrom(r, 1)
  ELSE r

\* String.prototype.charAt(0): the empty string when there is none.
FirstChar(r) == IF Len(r) = 0 THEN << >> ELSE << r[1] >>

RuleEntry(r) ==
  [ rule |-> r,
    suffix |-> StripPrefix(r),
    punySuffix |-> ToASCII(StripPrefix(r)),
    wildcard |-> FirstChar(r) = << "*" >>,
    exception |-> FirstChar(r) = << "!" >> ]

\* map.has(punySuffix)
MapHas(map, key) == key \in DOMAIN map

\* map.set(punySuffix, entry)
MapSet(map, key, entry) ==
  [ k \in DOMAIN map \cup { key } |-> IF k = key THEN entry ELSE map[k] ]

EmptyMap == [ k \in { } |-> Null ]

\* A reduce step without the map.has check: a later rule overwrites.
ReduceOverwrite ==
  /\ pc = "load"
  /\ idx < Len(rules)
  /\ LET e == RuleEntry(rules[idx + 1])
     IN  rulesByPunySuffix' = MapSet(rulesByPunySuffix, e.punySuffix, e)
  /\ idx' = idx + 1
  /\ pc' = IF idx + 1 = Len(rules) THEN "ready" ELSE "load"
  /\ UNCHANGED << threw, rules, input, result, rule, lookups, got, verdict, prev >>

Reduce ==
  /\ pc = "load"
  /\ idx < Len(rules)
  /\ LET r == rules[idx + 1]
         e == RuleEntry(r)
     IN  IF MapHas(rulesByPunySuffix, e.punySuffix)
           THEN /\ threw' = Some(r)
                /\ pc' = "failed"
                /\ UNCHANGED << rulesByPunySuffix, idx >>
           ELSE /\ rulesByPunySuffix' = MapSet(rulesByPunySuffix, e.punySuffix, e)
                /\ idx' = idx + 1
                /\ pc' = IF idx + 1 = Len(rules) THEN "ready" ELSE "load"
                /\ UNCHANGED threw
  /\ UNCHANGED << rules, input, result, rule, lookups, got, verdict, prev >>

(***************************************************************************)
(* findRule                                                                *)
(***************************************************************************)
RECURSIVE FindRuleFrom(_, _)
FindRuleFrom(punyDomainChunks, i) ==
  IF i >= Len(punyDomainChunks) THEN Null
  ELSE LET suffix == Join(SliceFrom(punyDomainChunks, i), ".")
       IN  IF MapHas(rulesByPunySuffix, suffix)
             THEN Some(rulesByPunySuffix[suffix])
             ELSE FindRuleFrom(punyDomainChunks, i + 1)

\* A findRule that looks the shortest suffix up first.
RECURSIVE FindRuleBackFrom(_, _)
FindRuleBackFrom(punyDomainChunks, i) ==
  IF i < 0 THEN Null
  ELSE LET suffix == Join(SliceFrom(punyDomainChunks, i), ".")
       IN  IF MapHas(rulesByPunySuffix, suffix)
             THEN Some(rulesByPunySuffix[suffix])
             ELSE FindRuleBackFrom(punyDomainChunks, i - 1)

FindRuleShortestFirst(domain) ==
  LET chunks == Split(ToASCII(domain), ".")
  IN  FindRuleBackFrom(chunks, Len(chunks) - 1)

\* A findRule whose loop starts one label late.
FindRuleFromSecond(domain) == FindRuleFrom(Split(ToASCII(domain), "."), 1)

FindRule(domain) == FindRuleFrom(Split(ToASCII(domain), "."), 0)

(***************************************************************************)
(* validate                                                                *)
(***************************************************************************)
\* /^[a-z0-9\-_]+$/
LabelChars == Range(Letters) \cup Range(Digits) \cup { "-", "_" }

RECURSIVE ValidateLabels(_, _)
ValidateLabels(labels, i) ==
  IF i > Len(labels) THEN Null
  ELSE LET label == labels[i]
       IN  IF Len(label) = 0 THEN Some("LABEL_TOO_SHORT")
           ELSE IF Len(label) > 63 THEN Some("LABEL_TOO_LONG")
           ELSE IF label[1] = "-" THEN Some("LABEL_STARTS_WITH_DASH")
           ELSE IF label[Len(label)] = "-" THEN Some("LABEL_ENDS_WITH_DASH")
           ELSE IF ~ (Range(label) \subseteq LabelChars)
             THEN Some("LABEL_INVALID_CHARS")
           ELSE ValidateLabels(labels, i + 1)

\* A validate that checks the labels before the total length.
ValidateLabelsFirst(in) ==
  LET ascii == ToASCII(in)
      v == ValidateLabels(Split(ascii, "."), 1)
  IN  IF Len(ascii) < 1 THEN Some("DOMAIN_TOO_SHORT")
      ELSE IF v # Null THEN v
      ELSE IF Len(ascii) > 255 THEN Some("DOMAIN_TOO_LONG")
      ELSE Null

Validate(in) ==
  LET ascii == ToASCII(in)
  IN  IF Len(ascii) < 1 THEN Some("DOMAIN_TOO_SHORT")
      ELSE IF Len(ascii) > 255 THEN Some("DOMAIN_TOO_LONG")
      ELSE ValidateLabels(Split(ascii, "."), 1)

errorCodes ==
  [ c \in { "DOMAIN_TOO_SHORT", "DOMAIN_TOO_LONG", "LABEL_STARTS_WITH_DASH",
            "LABEL_ENDS_WITH_DASH", "LABEL_TOO_LONG", "LABEL_TOO_SHORT",
            "LABEL_INVALID_CHARS" } |->
      CASE c = "DOMAIN_TOO_SHORT" -> "Domain name too short."
        [] c = "DOMAIN_TOO_LONG" ->
             "Domain name too long. It should be no more than 255 chars."
        [] c = "LABEL_STARTS_WITH_DASH" ->
             "Domain name label can not start with a dash."
        [] c = "LABEL_ENDS_WITH_DASH" ->
             "Domain name label can not end with a dash."
        [] c = "LABEL_TOO_LONG" ->
             "Domain name label should be at most 63 chars long."
        [] c = "LABEL_TOO_SHORT" ->
             "Domain name label should be at least 1 character long."
        [] c = "LABEL_INVALID_CHARS" ->
             "Domain name label can only contain alphanumeric characters or dashes." ]

(***************************************************************************)
(* parse.  Parse(in) is what the call returns (result) together with what  *)
(* findRule gave it (rule) and how often it ran findRule (lookups).        *)
(***************************************************************************)
\* if (x): a string is truthy when it is neither null nor empty.
Truthy(o) == o # Null /\ Len(o[1]) > 0

HandlePunycode(domain, parsed) ==
  IF ~ Contains(domain, << "x", "n", "-", "-" >>) THEN parsed
  ELSE [ parsed EXCEPT
           !.domain = IF Truthy(@) THEN Some(ToASCII(@[1])) ELSE @,
           !.subdomain = IF Truthy(@) THEN Some(ToASCII(@[1])) ELSE @ ]

\* An FQDN step that removes every trailing dot.
RECURSIVE StripDots(_)
StripDots(domain) ==
  IF Len(domain) > 0 /\ Last(domain) = "."
    THEN StripDots(SliceTo(domain, Len(domain) - 1))
    ELSE domain

SanitiseAllDots(in) == StripDots(ToLowerCase(in))

\* The FQDN step: lower case, then at most one trailing dot removed.
Sanitise(in) ==
  LET domain == ToLowerCase(in)
  IN  IF Len(domain) > 0 /\ Last(domain) = "."
        THEN SliceTo(domain, Len(domain) - 1)
        ELSE domain

\* The branch "Unlisted tld".
ParseUnlisted(domain, parsed, domainParts) ==
  IF Len(domainParts) < 2 THEN parsed
  ELSE LET tld == Last(domainParts)
           rest1 == Front(domainParts)
           sld == Last(rest1)
           rest2 == Front(rest1)
           p == [ parsed EXCEPT !.tld = Some(tld), !.sld = Some(sld),
                                !.domain = Some(Join(<< sld, tld >>, ".")) ]
       IN  HandlePunycode(domain,
             IF Len(rest2) > 0
               THEN [ p EXCEPT !.subdomain = Some(Last(rest2)) ]
               ELSE p)

\* if (rule.exception) privateParts.push(tldParts.shift())
ExceptionStep(r, tldParts, privateParts) ==
  IF r.exception
    THEN [ tldParts |-> Tail(tldParts),
           privateParts |-> Append(privateParts, Head(tldParts)) ]
    ELSE [ tldParts |-> tldParts, privateParts |-> privateParts ]

\* A wildcard step that takes the first private label, not the last.
WildcardStepFromFront(r, tldParts, privateParts) ==
  IF r.wildcard
    THEN [ tldParts |-> << Head(privateParts) >> \o tldParts,
           privateParts |-> Tail(privateParts) ]
    ELSE [ tldParts |-> tldParts, privateParts |-> privateParts ]

\* if (rule.wildcard) tldParts.unshift(privateParts.pop())
WildcardStep(r, tldParts, privateParts) ==
  IF r.wildcard
    THEN [ tldParts |-> << Last(privateParts) >> \o tldParts,
           privateParts |-> Front(privateParts) ]
    ELSE [ tldParts |-> tldParts, privateParts |-> privateParts ]

\* The branch after "At this point we know the public suffix is listed."
ParseListed(domain, parsed, domainParts, r) ==
  LET tldParts0 == Split(r.suffix, ".")
      privateParts0 == SliceTo(domainParts, Len(domainParts) - Len(tldParts0))
      e == ExceptionStep(r, tldParts0, privateParts0)
      p1 == [ parsed EXCEPT !.listed = TRUE,
                            !.tld = Some(Join(e.tldParts, ".")) ]
  IN  IF Len(e.privateParts) = 0 THEN HandlePunycode(domain, p1)
      ELSE LET w == WildcardStep(r, e.tldParts, e.privateParts)
               p2 == IF r.wildcard
                       THEN [ p1 EXCEPT !.tld = Some(Join(w.tldParts, ".")) ]
                       ELSE p1
           IN  IF Len(w.privateParts) = 0 THEN HandlePunycode(domain, p2)
               ELSE LET sld == Last(w.privateParts)
                        privateParts3 == Front(w.privateParts)
                        p3 == [ p2 EXCEPT
                                  !.sld = Some(sld),
                                  !.domain = Some(Join(<< sld, p2.tld[1] >>, ".")) ]
                    IN  HandlePunycode(domain,
                          IF Len(privateParts3) > 0
                            THEN [ p3 EXCEPT
                                     !.subdomain = Some(Join(privateParts3, ".")) ]
                            ELSE p3)

Parse(in) ==
  LET domain == Sanitise(in)
      error == Validate(domain)
      parsed == [ input |-> in, tld |-> Null, sld |-> Null, domain |-> Null,
                  subdomain |-> Null, listed |-> FALSE ]
      domainParts == Split(domain, ".")
  IN  IF error # Null
        THEN [ result |-> [ error |-> Some([ input |-> in,
                                             message |-> errorCodes[error[1]],
                                             code |-> error[1] ]),
                            parsed |-> Null ],
               rule |-> Null, lookups |-> 0 ]
      ELSE IF Last(domainParts) = << "l", "o", "c", "a", "l" >>
        THEN [ result |-> [ error |-> Null, parsed |-> Some(parsed) ],
               rule |-> Null, lookups |-> 0 ]
      ELSE LET r == FindRule(domain)
           IN  [ result |->
                   [ error |-> Null,
                     parsed |-> Some(IF r = Null
                                       THEN ParseUnlisted(domain, parsed, domainParts)
                                       ELSE ParseListed(domain, parsed, domainParts, r[1])) ],
                 rule |-> r, lookups |-> 1 ]

\* get, given what its call of parse returned.
GetOf(domain, res) ==
  IF Len(domain) = 0 THEN Null
  ELSE IF res.parsed = Null THEN Null
  ELSE IF Truthy(res.parsed[1].domain) THEN res.parsed[1].domain
  ELSE Null


Get(domain) == GetOf(domain, Parse(domain).result)

(***************************************************************************)
(* Inputs.  A hostname is a list of labels joined by dots; a rule list is  *)
(* a list of rule lines.                                                   *)
(***************************************************************************)
MaxLabels == 4

MaxRules == 2

MaxShortLabels == 2

SeqsUpTo(S, n) == UNION { [ 1 .. k -> S ] : k \in 1 .. n }

Dotted(labels) == Join(labels, ".")

local == << "l", "o", "c", "a", "l" >>

PlainLabels == { << "a" >>, << "b" >>, << "x" >> }

\* Besides the plain labels: local, an A-label and the U-label it encodes;
\* and an upper-case label, a label that fails validation, the empty label.
IdnLabels ==
  PlainLabels \cup
    { local, << "x", "n", "-", "-", "t", "d", "a" >>, << "U+00FC" >> }

OddLabels == IdnLabels \cup { << "A" >>, << "-", "a" >>, << >> }

Hosts ==
  { Dotted(ls) : ls \in SeqsUpTo(PlainLabels, MaxLabels) } \cup
  { Dotted(ls) : ls \in SeqsUpTo(IdnLabels, 3) } \cup
  { Dotted(ls) : ls \in SeqsUpTo(OddLabels, 2) }

\* b, *.b, a.b, !a.b, *.a.b, !x, and two rules whose suffix is not ASCII.
RulePool ==
  << << "b" >>,
     << "*", ".", "b" >>,
     << "a", ".", "b" >>,
     << "!", "a", ".", "b" >>,
     << "*", ".", "a", ".", "b" >>,
     << "!", "x" >>,
     << "U+00FC", ".", "b" >>,
     << "!", "U+00FC", ".", "b" >> >>

RuleSeqs == { << >> } \cup SeqsUpTo(DOMAIN RulePool, MaxRules)

\* Every list of at most MaxRules lines of the pool, in any order.
RuleLists == { [ i \in DOMAIN s |-> RulePool[s[i]] ] : s \in RuleSeqs }

\* The same lists up to the order of their lines.
OrderedRuleLists ==
  { [ i \in DOMAIN s |-> RulePool[s[i]] ] :
      s \in { t \in RuleSeqs : \A i, j \in DOMAIN t : i < j => t[i] < t[j] } }

\* Labels for the validator: each fails none, one or several of its checks.
ShortLabels ==
  { << >>, << "a" >>, << "a", "_", "1", "-", "b" >>, << "-", "a", "-" >>,
    << "!", "-" >>, << "-", "!" >>, << "!" >>, << "A" >> }

LongLabels ==
  { << "a" >>, Rep("a", 63), Rep("a", 64), << "-" >> \o Rep("a", 63) }

ValidatorHosts ==
  { Dotted(ls) : ls \in SeqsUpTo(ShortLabels, MaxShortLabels) } \cup
  { Dotted(ls) : ls \in SeqsUpTo(LongLabels, 4) } \cup
  { << >> }

ValidatorRuleLists ==
  { << >>, << << "a" >> >>, << << "*", ".", "a" >>, << "!", "a", ".", "a" >> >> }

(***************************************************************************)
(* The state machine: the module is loaded (the reduce runs), and then     *)
(* its caller calls parse, get and validate.                               *)
(***************************************************************************)
NoResult == [ error |-> Null, parsed |-> Null ]

NoCall == [ input |-> << >>, result |-> NoResult, rule |-> Null, got |-> Null ]

ThisCall == [ input |-> input, result |-> result, rule |-> rule, got |-> got ]

InitWith(lists) ==
  /\ rules \in lists
  /\ idx = 0
  /\ rulesByPunySuffix = EmptyMap
  /\ threw = Null
  /\ pc = IF Len(rules) = 0 THEN "ready" ELSE "load"
  /\ input = << >>
  /\ result = NoResult
  /\ rule = Null
  /\ lookups = 0
  /\ got = Null
  /\ verdict = Null
  /\ prev = NoCall

Init == InitWith(OrderedRuleLists)

InitIndex == InitWith(RuleLists)

InitValidator == InitWith(ValidatorRuleLists)

loaded == << rules, idx, rulesByPunySuffix, threw >>

\* parse(h) is called and returns; the caller is then at pc = to.
Call(h, to) ==
  LET p == Parse(h)
  IN  /\ input' = h
      /\ result' = p.result
      /\ rule' = p.rule
      /\ lookups' = p.lookups
      /\ pc' = to

\* get(h) is called and returns: it calls parse(h) unless h is empty.
CallGet(h, to) ==
  IF Len(h) = 0
    THEN /\ got' = Null
         /\ input' = h
         /\ pc' = to
         /\ UNCHANGED << result, rule, lookups >>
    ELSE LET p == Parse(h)
         IN  /\ input' = h
             /\ result' = p.result
             /\ rule' = p.rule
             /\ lookups' = p.lookups
             /\ got' = GetOf(h, p.result)
             /\ pc' = to

ParseCall(h) ==
  /\ pc = "ready"
  /\ Call(h, "parsed")
  /\ UNCHANGED << loaded, got, verdict, prev >>

\* parse(h + ".") after parse(h), for an h that does not end in a dot.
ParseFqdn ==
  /\ pc = "parsed"
  /\ ~ (Len(input) > 0 /\ Last(input) = ".")
  /\ prev' = ThisCall
  /\ Call(input \o << "." >>, "parsedDot")
  /\ UNCHANGED << loaded, got, verdict >>

\* parse(h + "..") after parse(h).
ParseTwoDots ==
  /\ pc = "parsed"
  /\ prev' = ThisCall
  /\ Call(input \o << ".", "." >>, "parsedDots")
  /\ UNCHANGED << loaded, got, verdict >>

GetCall(h) ==
  /\ pc = "ready"
  /\ CallGet(h, "got")
  /\ UNCHANGED << loaded, verdict, prev >>

\* get(g) for the g that get has just returned.
GetAgain ==
  /\ pc = "got"
  /\ got # Null
  /\ prev' = ThisCall
  /\ CallGet(got[1], "regot")
  /\ UNCHANGED << loaded, verdict >>

\* validate(h), called on its own.
ValidateCall(h) ==
  /\ pc = "ready"
  /\ input' = h
  /\ verdict' = Validate(h)
  /\ pc' = "validated"
  /\ UNCHANGED << loaded, result, rule, lookups, got, prev >>

\* The caller has its answer and may call again.
Return ==
  /\ pc \in { "parsed", "parsedDot", "parsedDots", "got", "regot", "validated" }
  /\ pc' = "ready"
  /\ input' = << >>
  /\ result' = NoResult
  /\ rule' = Null
  /\ lookups' = 0
  /\ got' = Null
  /\ verdict' = Null
  /\ prev' = NoCall
  /\ UNCHANGED loaded

Next ==
  \/ Reduce
  \/ \E h \in Hosts : ParseCall(h)
  \/ \E h \in Hosts : GetCall(h)
  \/ GetAgain
  \/ Return

Spec == Init /\ [][Next]_vars

NextIndex == Reduce

SpecIndex == InitIndex /\ [][NextIndex]_vars

NextValidator ==
  \/ Reduce
  \/ \E h \in ValidatorHosts : ValidateCall(h)
  \/ \E h \in ValidatorHosts : ParseCall(h)
  \/ ParseFqdn
  \/ ParseTwoDots
  \/ Return

SpecValidator == InitValidator /\ [][NextValidator]_vars

(***************************************************************************)
(* Vocabulary of the properties.                                           *)
(***************************************************************************)
\* parse has been called and has returned.
Called ==
  \/ pc \in { "parsed", "parsedDot", "parsedDots" }
  \/ pc \in { "got", "regot" } /\ Len(input) > 0

IsParsed == Called /\ result.parsed # Null

IsError == Called /\ result.error # Null

parsedNow == result.parsed[1]

IsASCIIString(s) == \A i \in DOMAIN s : ~ NonASCII(s[i])

\* The hostname the resolver works on: lower case, one trailing dot
\* removed, ASCII-encoded.
Hostname == ToASCII(Sanitise(input))

\* The suffixes of h that start at a label: h itself, and what follows a dot.
DotSuffixes(h) ==
  { SubSeq(h, i, Len(h)) : i \in { j \in 1 .. Len(h) : j = 1 \/ h[j - 1] = "." } }

KeySuffixes(h) == { s \in DotSuffixes(h) : s \in DOMAIN rulesByPunySuffix }

Longest(S) == CHOOSE s \in S : \A t \in S : Len(t) <= Len(s)

LastLabelIsLocal(h) ==
  \/ h = local
  \/ Len(h) > Len(local) /\ SubSeq(h, Len(h) - Len(local), Len(h)) = << "." >> \o local

\* A validated hostname whose last label is not local.
Resolved == IsParsed /\ ~ LastLabelIsLocal(Hostname)

\* The value of an optional string that has exactly the given value.
Is(o, v) == o = Some(v)

(***************************************************************************)
(* C1.  Longest match: for a validated hostname whose last label is not    *)
(* local, the rule parse uses is the one keyed by the longest              *)
(* dot-separated suffix of the hostname that is a key of the index, and    *)
(* there is none exactly when no such suffix is a key.  So with rules for  *)
(* S and for X.S and a hostname ending in X.S, the S rule is not the one   *)
(* selected.                                                               *)
(***************************************************************************)
C1_LongestMatch ==
  Resolved =>
    /\ lookups = 1
    /\ IF KeySuffixes(Hostname) = { }
         THEN rule = Null
         ELSE rule = Some(rulesByPunySuffix[Longest(KeySuffixes(Hostname))])

\* Rules for b and for a.b, a hostname that ends in a.b with more labels in
\* front: the a.b rule is used.
C1_Witness ==
  /\ pc = "parsed"
  /\ Cardinality(KeySuffixes(Hostname)) = 2
  /\ Len(Hostname) > 3
  /\ rule # Null
  /\ rule[1].punySuffix = << "a", ".", "b" >>

\* The labels of the hostname as parse splits it, and those in front of
\* the last n.
Labels == Split(Sanitise(input), ".")

Leading(n) == SubSeq(Labels, 1, Len(Labels) - n)

\* The fields of a Parsed result.
Fields(tld, sld, domain, subdomain, listed) ==
  /\ parsedNow.tld = tld
  /\ parsedNow.sld = sld
  /\ parsedNow.domain = domain
  /\ parsedNow.subdomain = subdomain
  /\ parsedNow.listed = listed

\* What is left of the labels ls once the suffix is taken: an sld, and a
\* subdomain when more than one label is left.
Registrable(ls, tld) ==
  IF Len(ls) = 0 THEN Fields(Some(tld), Null, Null, Null, TRUE)
  ELSE Fields(Some(tld), Some(Last(ls)),
              Some(Last(ls) \o << "." >> \o tld),
              IF Len(ls) = 1 THEN Null ELSE Some(Dotted(Front(ls))),
              TRUE)

(***************************************************************************)
(* C2.  Unlisted TLD split: when no suffix of a validated hostname (last   *)
(* label not local) is a key of the index and the hostname has n >= 2      *)
(* labels, parse returns listed = false, tld = the last label, sld = the   *)
(* label before it, domain = sld.tld, and subdomain = all the labels in    *)
(* front of those joined by dots (null when n = 2).  Stated for hostnames  *)
(* given in ASCII.                                                         *)
(***************************************************************************)
C2_UnlistedSplit ==
  ( /\ Resolved
    /\ IsASCIIString(input)
    /\ KeySuffixes(Hostname) = { }
    /\ Len(Labels) >= 2 ) =>
    LET n == Len(Labels)
    IN  Fields(Some(Labels[n]), Some(Labels[n - 1]),
               Some(Labels[n - 1] \o << "." >> \o Labels[n]),
               IF n = 2 THEN Null ELSE Some(Dotted(Leading(2))),
               FALSE)

(***************************************************************************)
(* C3.  Wildcard rule: when the rule selected for a hostname is a wildcard *)
(* rule *.P, the label in front of P belongs to the public suffix: the     *)
(* bare hostname P gives only tld = P; a.P gives tld = a.P and sld, domain *)
(* and subdomain null; b.a.P gives tld = a.P, sld = b, domain = b.a.P and  *)
(* no subdomain; further labels in front, joined by dots, are the          *)
(* subdomain.  listed is true throughout.                                  *)
(***************************************************************************)
C3_Wildcard ==
  ( Resolved /\ rule # Null /\ rule[1].wildcard ) =>
    LET P == rule[1].suffix
        lead == Leading(Len(Split(P, ".")))
    IN  IF Len(lead) = 0 THEN Fields(Some(P), Null, Null, Null, TRUE)
        ELSE Registrable(Front(lead), Last(lead) \o << "." >> \o P)

\* x.x.b.a.b under *.a.b: one label goes to the suffix, one is the sld,
\* two are the subdomain.  (Or the like under *.b.)
C3_Witness ==
  /\ pc = "parsed"
  /\ rule # Null
  /\ rule[1].wildcard
  /\ parsedNow.subdomain # Null
  /\ Len(Split(parsedNow.subdomain[1], ".")) >= 1
  /\ parsedNow.sld # Null

(***************************************************************************)
(* C4.  Exception rule: with the wildcard rule *.P and the exception rule  *)
(* !a.P in the index, parse of a.P returns listed = true, tld = P,         *)
(* sld = a, domain = a.P and no subdomain, and parse of x.a.P returns the  *)
(* same tld, sld and domain with subdomain = x: the label a is not folded  *)
(* into the tld, and the wildcard step is not applied on top.              *)
(***************************************************************************)
C4_Exception ==
  ( /\ Resolved
    /\ rule # Null
    /\ rule[1].exception
    /\ Len(Split(rule[1].suffix, ".")) >= 2 ) =>
    LET aP == Split(rule[1].suffix, ".")
        P == Dotted(Tail(aP))
    IN  ( /\ P \in DOMAIN rulesByPunySuffix
          /\ rulesByPunySuffix[P].wildcard
          /\ Len(Leading(Len(aP))) <= 1 ) =>
          Registrable(Append(Leading(Len(aP)), Head(aP)), P)

\* x.a.b with *.b and !a.b in the index.
C4_Witness ==
  /\ pc = "parsed"
  /\ rule # Null
  /\ rule[1].exception
  /\ << "b" >> \in DOMAIN rulesByPunySuffix
  /\ rulesByPunySuffix[<< "b" >>].wildcard
  /\ Is(parsedNow.subdomain, << "x" >>)
  /\ Is(parsedNow.tld, << "b" >>)

(***************************************************************************)
(* C6.  Outcome exclusivity and field population: parse ends in exactly    *)
(* one of error, local, unlisted, listed.  error: no parsed fields.        *)
(* local (last label local): tld, sld, domain, subdomain null, listed      *)
(* false, findRule not run.  In every Parsed result listed is true iff     *)
(* some suffix of the hostname is a key of the index and the last label is *)
(* not local; listed implies tld non-null; sld is non-null iff domain is;  *)
(* sld non-null implies tld non-null; subdomain non-null implies domain    *)
(* non-null.                                                               *)
(***************************************************************************)
Outcome ==
  IF result.error # Null THEN "error"
  ELSE IF LastLabelIsLocal(Hostname) THEN "local"
  ELSE IF parsedNow.listed THEN "listed"
  ELSE "unlisted"

C6_Outcomes ==
  Called =>
    /\ (result.error = Null) # (result.parsed = Null)
    /\ result.error # Null => lookups = 0 /\ rule = Null
    /\ result.parsed # Null =>
         /\ parsedNow.input = input
         /\ LastLabelIsLocal(Hostname) =>
              Fields(Null, Null, Null, Null, FALSE) /\ lookups = 0
         /\ parsedNow.listed <=>
              KeySuffixes(Hostname) # { } /\ ~ LastLabelIsLocal(Hostname)
         /\ parsedNow.listed => parsedNow.tld # Null
         /\ parsedNow.sld # Null <=> parsedNow.domain # Null
         /\ parsedNow.sld # Null => parsedNow.tld # Null
         /\ parsedNow.subdomain # Null => parsedNow.domain # Null

\* A local hostname parsed while the index holds rules.
C6_Witness ==
  /\ pc = "parsed"
  /\ result.parsed # Null
  /\ Outcome = "local"
  /\ Len(Labels) = 3
  /\ DOMAIN rulesByPunySuffix # { }

(***************************************************************************)
(* C8.  Domain is sld + tld: in every Parsed result, for every hostname    *)
(* and every index (rules whose suffix text differs from its ASCII key and *)
(* hostnames in xn-- form included), domain is non-null exactly when sld   *)
(* and tld are both non-null, and then domain is the sld, a dot, the tld.  *)
(* Stated for hostnames given in ASCII, the xn-- form included.            *)
(***************************************************************************)
C8_DomainIsSldTld ==
  ( IsParsed /\ IsASCIIString(input) ) =>
    /\ parsedNow.domain # Null <=> (parsedNow.sld # Null /\ parsedNow.tld # Null)
    /\ parsedNow.domain # Null =>
         parsedNow.domain[1] = parsedNow.sld[1] \o << "." >> \o parsedNow.tld[1]

KeyOf(r) == ToASCII(StripPrefix(r))

\* Two of the first n rules have the same key.
Clash(n) == \E i, j \in 1 .. n : i < j /\ KeyOf(rules[i]) = KeyOf(rules[j])

C7_IndexUnique ==
  /\ Cardinality(DOMAIN rulesByPunySuffix) = idx
  /\ \A i \in 1 .. idx :
       /\ KeyOf(rules[i]) \in DOMAIN rulesByPunySuffix
       /\ rulesByPunySuffix[KeyOf(rules[i])].rule = rules[i]
  /\ \A k \in DOMAIN rulesByPunySuffix :
       /\ rulesByPunySuffix[k].punySuffix = k
       /\ ~ (rulesByPunySuffix[k].wildcard /\ rulesByPunySuffix[k].exception)
  /\ ~ Clash(idx)
  /\ threw # Null <=> pc = "failed"
  /\ threw # Null => threw = Some(rules[idx + 1]) /\ Clash(idx + 1)
  /\ pc = "ready" => idx = Len(rules)
  /\ pc = "load" => idx < Len(rules)

\* b and then *.b: the construction throws at the second rule.
C7_Witness ==
  /\ threw # Null
  /\ idx = 1
  /\ rules[1] # rules[2]
  /\ rulesByPunySuffix[KeyOf(rules[2])].rule = rules[1]

(***************************************************************************)
(* C5.  Validator order: validate returns the code of the first failing    *)
(* check in this order: total length < 1, total length > 255, then label   *)
(* by label from the left: empty, longer than 63, starts with a dash, ends *)
(* with a dash, a character outside [a-z0-9-_]; it returns no error iff    *)
(* every label clears all five.  parse returns the Error variant with that *)
(* code and its message and does not reach the rule lookup.  The checks    *)
(* are those of the hostname in its ASCII form, which for an ASCII         *)
(* hostname is the hostname itself.                                        *)
(***************************************************************************)
\* The first check the label fails; Null when it clears all five.
LabelFault(label) ==
  CASE Len(label) = 0 -> Some("LABEL_TOO_SHORT")
    [] Len(label) > 63 -> Some("LABEL_TOO_LONG")
    [] Len(label) \in 1 .. 63 /\ label[1] = "-" -> Some("LABEL_STARTS_WITH_DASH")
    [] Len(label) \in 1 .. 63 /\ label[1] # "-" /\ label[Len(label)] = "-" ->
         Some("LABEL_ENDS_WITH_DASH")
    [] OTHER -> IF \E i \in DOMAIN label : label[i] \notin LabelChars
                  THEN Some("LABEL_INVALID_CHARS")
                  ELSE Null

FirstFault(h) ==
  LET labels == Split(h, ".")
      faulty == { i \in DOMAIN labels : LabelFault(labels[i]) # Null }
  IN  IF Len(h) < 1 THEN Some("DOMAIN_TOO_SHORT")
      ELSE IF Len(h) > 255 THEN Some("DOMAIN_TOO_LONG")
      ELSE IF faulty = { } THEN Null
      ELSE LabelFault(labels[CHOOSE i \in faulty : \A j \in faulty : i <= j])

SameAnswer(r1, r2) ==
  /\ (r1.error = Null) = (r2.error = Null)
  /\ r1.error # Null => r1.error[1].code = r2.error[1].code
  /\ r1.parsed # Null =>
       \A f \in { "tld", "sld", "domain", "subdomain", "listed" } :
         r1.parsed[1][f] = r2.parsed[1][f]

OneDotSame == pc = "parsedDot" => SameAnswer(prev.result, result)

TwoDotsCode(code) ==
  /\ result.parsed = Null
  /\ result.error # Null
  /\ result.error[1].code = code

C9_AsClaimed ==
  /\ OneDotSame
  /\ ( pc = "parsedDots" /\ Validate(prev.input) = Null ) =>
       TwoDotsCode("LABEL_TOO_SHORT")

(***************************************************************************)
(* C9, amended.  The same, but for an h that passes validation             *)
(* parse(h + "..") returns LABEL_TOO_SHORT when h has at most 254          *)
(* characters and DOMAIN_TOO_LONG when h has 255: with the dot that is     *)
(* left, the hostname is then 256 characters long, and the length is       *)
(* checked before the labels.                                              *)
(***************************************************************************)
C9_TrailingDot ==
  /\ OneDotSame
  /\ ( pc = "parsedDots" /\ Validate(prev.input) = Null ) =>
       IF Len(prev.input) = 255
         THEN TwoDotsCode("DOMAIN_TOO_LONG")
         ELSE TwoDotsCode("LABEL_TOO_SHORT")

\* h of 255 characters, valid, and parse(h + "..") has returned.
C9_Witness ==
  /\ pc = "parsedDots"
  /\ Validate(prev.input) = Null
  /\ Len(prev.input) = 255
  /\ prev.result.parsed # Null
  /\ TwoDotsCode("DOMAIN_TOO_LONG")
=============================================================================
